---- MODULE Spec2Model ----
(***************************************************************************)
(* TaskMasterAgentCore: the POST /agent handler and the run_agent          *)
(* orchestrator of src/main.py as a state machine.                         *)
(*                                                                         *)
(* Text is a sequence of tokens (a token stands for one character or one   *)
(* fixed run of characters), so that strip, join, emptiness and the        *)
(* substring test are computed as Python computes them.                    *)
(*                                                                         *)
(* A Python/JSON scalar is a record [t, s]: t its type ("null", "bool",    *)
(* "num", "str", "list", "obj") and s its text (the content of a str, the  *)
(* str() rendering of anything else).                                      *)
(***************************************************************************)
EXTENDS Integers, Sequences, FiniteSets, TLC

VARIABLES
  pc,              \* per request: position of its handler task
  loop,            \* the set holding the task the event-loop thread is running
  query,           \* per request: UserRequest.query
  status,          \* per request: HTTP status answered ("none" before)
  tool_to_use,     \* run_agent locals, per request
  parameters,
  tool_result,
  parsed_intent,
  final_response_prompt,
  final_answer,
  calls,           \* per request: the external calls made, in order
  tool_args        \* per request: the arguments each tool invocation received

vars == <<pc, loop, query, status, tool_to_use, parameters, tool_result,
          parsed_intent, final_response_prompt, final_answer, calls, tool_args>>

\* Number of requests the clients send to the service.
NumRequests == 2

Requests == 1..NumRequests

----------------------------------------------------------------------------
\* Python text and values

WS == {" ", "\t"}

Str(x) == [t |-> "str", s |-> x]
Num(x) == [t |-> "num", s |-> x]
PyNone == [t |-> "null", s |-> <<"None">>]
ListVal(x) == [t |-> "list", s |-> x]

NONE == <<"none">>
GET_WEATHER == <<"get_weather">>
LOCATION == <<"location">>
NONE_MISSING_PARAMS == <<"none_missing_params">>
N_A == <<"N/A">>

RECURSIVE LStrip(_)
LStrip(s) == IF s # <<>> /\ Head(s) \in WS THEN LStrip(Tail(s)) ELSE s

RECURSIVE RStrip(_)
RStrip(s) == IF s # <<>> /\ s[Len(s)] \in WS THEN RStrip(SubSeq(s, 1, Len(s) - 1)) ELSE s

\* str.strip()
Strip(s) == RStrip(LStrip(s))

\* `a in b` for two str
IsSubstring(a, b) ==
  \E i \in 0..(Len(b) - Len(a)) : SubSeq(b, i + 1, i + Len(a)) = a

\* sep.join(parts)
RECURSIVE Join(_, _)
Join(sep, parts) ==
  IF parts = <<>> THEN <<>>
  ELSE IF Len(parts) = 1 THEN parts[1]
  ELSE parts[1] \o sep \o Join(sep, Tail(parts))

\* bool(v)
Truthy(v) ==
  CASE v.t = "null" -> FALSE
    [] v.t = "bool" -> v.s = <<"True">>
    [] v.t = "num"  -> v.s # <<"0">>
    [] v.t = "str"  -> v.s # <<>>
    [] v.t = "list" -> v.s # <<"[]">>
    [] v.t = "obj"  -> v.s # <<"{}">>

\* hash(v) is defined (dict lookup `v in TOOLS` raises TypeError otherwise)
Hashable(v) == v.t \notin {"list", "obj"}

Range(f) == {f[i] : i \in DOMAIN f}

----------------------------------------------------------------------------
\* The tool registry and the parsed parameters

UNITS == <<"units">>
SEND_EMAIL == <<"send_email">>
PARIS == <<"Paris">>

\* A parsed "parameters" value: t its JSON type, s its content when a str,
\* keys its keys when an object (its str elements when a list), loc the value
\* under "location" when an object that has it.
Params(t, s, keys, loc) == [t |-> t, s |-> s, keys |-> keys, loc |-> loc]

EmptyDict == Params("obj", <<>>, {}, PyNone)

\* TOOLS, with each tool's co_varnames[:co_argcount]
TOOLS == [n \in {GET_WEATHER} |-> <<LOCATION>>]

\* Variant of Registered: the guard of line 183 taking every name but "none".
RegisteredAnyName(v) == v.t = "str" /\ v.s # NONE

\* `tool_to_use in TOOLS`, for a hashable tool_to_use
Registered(v) == v.t = "str" /\ v.s \in DOMAIN TOOLS

\* required_params of TOOLS[name]; the guard of Registered keeps name in TOOLS
RequiredParams(name) == IF name \in DOMAIN TOOLS THEN TOOLS[name] ELSE <<>>

\* `param in parameters` raises TypeError: parameters is no container
ContainsRaises(params) == params.t \notin {"obj", "list", "str"}

\* `param in parameters`
Contains(param, params) ==
  IF params.t = "str" THEN IsSubstring(param, params.s) ELSE param \in params.keys

\* all(param in parameters for param in required_params): "true", "false", or
\* "raise" when a membership test raises
RECURSIVE AllParamsPresent(_, _)
AllParamsPresent(req, params) ==
  IF req = <<>> THEN "true"
  ELSE IF ContainsRaises(params) THEN "raise"
  ELSE IF ~Contains(Head(req), params) THEN "false"
  ELSE AllParamsPresent(Tail(req), params)

\* tool_function(**parameters) binds its arguments: parameters is a mapping
\* whose keys are exactly the function's positional parameters
BindOK(req, params) == params.t = "obj" /\ params.keys = Range(req)

----------------------------------------------------------------------------
\* get_weather

TEXT_EMPTY_LOCATION == <<"Error: Please specify a location for the weather.">>
TEXT_TIMEOUT == <<"Error: The weather service took too long to respond. Please try again later.">>
TEXT_CONNECTION == <<"Error: Could not connect to the weather service. Please check your connection or try again later.">>
TEXT_FORMAT == <<"Error: Received an unexpected response format from the weather service.">>
TEXT_UNEXPECTED == <<"Error: An unexpected error occurred while fetching weather data.">>

\* What the weather service's HTTP exchange can come to.
NetReplies ==
  {"ok_named", "ok_unnamed", "not_found", "api_error", "timeout", "connection",
   "key_error", "not_a_dict"}

\* Lines 54-57 and the .strip() of line 55: "empty" returns the error text
\* without a network call, "raise" is the AttributeError of a truthy non-str,
\* "network" goes on to requests.get.
WeatherEntry(location) ==
  IF ~Truthy(location) THEN "empty"
  ELSE IF location.t # "str" THEN "raise"
  ELSE IF Strip(location.s) = <<>> THEN "empty"
  ELSE "network"

\* The text get_weather returns after requests.get, by what the exchange came to.
WeatherText(location, reply) ==
  CASE reply = "ok_named" ->
         <<"The weather in ", "CityName", " is currently ", "description",
           " with a temperature of ", "temp", "°C (feels like ", "feels_like",
           "°C) and humidity of ", "humidity", "%.">>
    [] reply = "ok_unnamed" ->
         <<"The weather in ">> \o location.s \o
         <<" is currently ", "description",
           " with a temperature of ", "temp", "°C (feels like ", "feels_like",
           "°C) and humidity of ", "humidity", "%.">>
    [] reply = "not_found" ->
         <<"Error: Sorry, I couldn't find weather data for the city '">>
         \o location.s \o <<"'. Please check the spelling.">>
    [] reply = "api_error" ->
         <<"Error: Could not retrieve weather data. API reported: ", "message">>
    [] reply = "timeout" -> TEXT_TIMEOUT
    [] reply = "connection" -> TEXT_CONNECTION
    [] reply = "key_error" -> TEXT_FORMAT
    [] reply = "not_a_dict" -> TEXT_UNEXPECTED

----------------------------------------------------------------------------
\* The texts run_agent puts in tool_result

\* Variant of ToolFailedText: the except clause of line 193 leaving no text.
ToolFailedSilent(name) == <<>>

\* line 195
ToolFailedText(name) == <<"Error: Failed to execute the tool '">> \o name \o <<"'.">>

MissingParamsText(name, req) ==
  <<"Error: I need more information to use the '">> \o name
  \o <<"' tool. Please provide: ">> \o Join(<<", ">>, req) \o <<".">>

UnavailableText(name) ==
  <<"Error: I cannot perform that action as the tool '">> \o name
  \o <<"' is not available.">>

FALLBACK_ANSWER == <<"Sorry, I encountered an error while trying to generate a response.">>

----------------------------------------------------------------------------
\* The classification LLM call and the parse of its text

\* A JSON document: t its type; for an object, whether it has the keys
\* "tool_name" and "parameters" and their values.
Doc(t, has_tool, tool_name, has_params, params) ==
  [t |-> t, has_tool |-> has_tool, tool_name |-> tool_name,
   has_params |-> has_params, params |-> params]

\* parsed_intent is not bound (json.loads did not return)
Unbound == Doc("unbound", FALSE, PyNone, FALSE, EmptyDict)

ToolNameValues ==
  {PyNone, Str(NONE), Str(GET_WEATHER), Str(<<>>), Str(SEND_EMAIL),
   Num(<<"5">>), ListVal(<<"['get_weather']">>)}

LocationValues == {PyNone, Str(<<" ">>), Str(PARIS), Num(<<"5">>)}

ParamsValues ==
  {Params("null", <<>>, {}, PyNone), Params("num", <<>>, {}, PyNone),
   Params("str", LOCATION, {}, PyNone), Params("list", <<>>, {LOCATION}, PyNone),
   EmptyDict, Params("obj", <<>>, {UNITS}, PyNone),
   Params("obj", <<>>, {LOCATION, UNITS}, Str(PARIS))}
  \cup {Params("obj", <<>>, {LOCATION}, l) : l \in LocationValues}

Docs ==
  {Doc("list", FALSE, PyNone, FALSE, EmptyDict),
   Doc("null", FALSE, PyNone, FALSE, EmptyDict)}
  \cup {Doc("obj", TRUE, n, TRUE, p) : n \in ToolNameValues, p \in ParamsValues}
  \cup {Doc("obj", FALSE, PyNone, TRUE, p) : p \in ParamsValues}
  \cup {Doc("obj", TRUE, n, FALSE, EmptyDict) : n \in ToolNameValues}
  \cup {Doc("obj", FALSE, PyNone, FALSE, EmptyDict)}

\* The token that stands for the serialised JSON document of a reply.
JSON == "<json>"

\* The markdown fences of line 165: three backquotes, with and without the
\* language tag.
FENCE_JSON == "[fence]json"
FENCE == "[fence]"

\* The texts the LLM wraps a document in (or answers instead of one).
Texts ==
  {<<JSON>>, <<FENCE_JSON, "\t", JSON, "\t", FENCE>>, <<" ", FENCE, JSON, FENCE, " ">>,
   <<"Sure!", " ", JSON>>, <<FENCE_JSON, FENCE>>, <<>>}

\* A reply of client.models.generate_content: it raises, or returns a response
\* whose .text is None or a text.
Reply(kind, text, doc) == [kind |-> kind, text |-> text, doc |-> doc]

IntentReplies ==
  {Reply("raise", <<>>, Unbound), Reply("none", <<>>, Unbound)}
  \cup {Reply("text", x, d) : x \in Texts, d \in Docs}

\* str.replace(fence, empty) for the two fences of line 165
RECURSIVE RemoveFences(_)
RemoveFences(s) ==
  IF s = <<>> THEN <<>>
  ELSE IF Head(s) \in {FENCE_JSON, FENCE} THEN RemoveFences(Tail(s))
  ELSE <<Head(s)>> \o RemoveFences(Tail(s))

\* line 165
CleanedResponseText(text) == Strip(RemoveFences(Strip(text)))

\* json.loads(cleaned) returns (the cleaned text is one JSON document)
JsonLoads(cleaned) == cleaned = <<JSON>>

\* dict.get(key, default) of lines 169-170
GetToolName(d) == IF d.has_tool THEN d.tool_name ELSE PyNone
GetParameters(d) == IF d.has_params THEN d.params ELSE EmptyDict

\* Variant of FallbackToolName: the except clauses naming "None" for "none".
FallbackUnknownName == Str(<<"None">>)

\* lines 176 and 180
FallbackToolName == Str(NONE)

\* Lines 155-180: the locals after the try statement.

Classified(reply) ==
  IF reply.kind # "text" THEN
    \* the call raised, or .text is None and .strip raises: except Exception
    [parsed_intent |-> Unbound, tool_to_use |-> FallbackToolName, parameters |-> EmptyDict]
  ELSE IF ~JsonLoads(CleanedResponseText(reply.text)) THEN
    \* except json.JSONDecodeError
    [parsed_intent |-> Unbound, tool_to_use |-> FallbackToolName, parameters |-> EmptyDict]
  ELSE IF reply.doc.t # "obj" THEN
    \* parsed_intent.get raises AttributeError: except Exception
    [parsed_intent |-> reply.doc, tool_to_use |-> FallbackToolName, parameters |-> EmptyDict]
  ELSE
    [parsed_intent |-> reply.doc, tool_to_use |-> GetToolName(reply.doc),
     parameters |-> GetParameters(reply.doc)]

----------------------------------------------------------------------------
\* run_agent, stage 2: tool execution (lines 183-206)

Stage(state, tu, result, req) ==
  [state |-> state, tool_to_use |-> tu, tool_result |-> result, required_params |-> req]

\* state is the branch taken: "raised" (an exception leaves run_agent),
\* "call_failed" (the call of line 192 raised before the tool was entered),
\* "tool_returned", "tool_raised", "network" (the tool went on to its network
\* call), "missing_params", "tool_unknown", "no_tool".
ToolStage(tu, params) ==
  IF Truthy(tu) /\ ~Hashable(tu) THEN
    Stage("raised", tu, PyNone, <<>>)
  ELSE IF Truthy(tu) /\ Registered(tu) THEN
    LET req == RequiredParams(tu.s)
        present == AllParamsPresent(req, params)
    IN  IF present = "raise" THEN Stage("raised", tu, PyNone, req)
        ELSE IF present = "true" THEN
          IF ~BindOK(req, params) THEN
            Stage("call_failed", tu, Str(ToolFailedText(tu.s)), req)
          ELSE IF WeatherEntry(params.loc) = "empty" THEN
            Stage("tool_returned", tu, Str(TEXT_EMPTY_LOCATION), req)
          ELSE IF WeatherEntry(params.loc) = "raise" THEN
            Stage("tool_raised", tu, Str(ToolFailedText(tu.s)), req)
          ELSE Stage("network", tu, PyNone, req)
        ELSE
          Stage("missing_params", Str(NONE_MISSING_PARAMS),
                Str(MissingParamsText(tu.s, req)), req)
  ELSE IF Truthy(tu) /\ tu # Str(NONE) THEN
    Stage("tool_unknown", Str(NONE), Str(UnavailableText(tu.s)), <<>>)
  ELSE Stage("no_tool", tu, PyNone, <<>>)

----------------------------------------------------------------------------
\* run_agent, stage 3: response generation (lines 209-258)

Prompt(variant, tool, result, needs) ==
  [variant |-> variant, tool |-> tool, result |-> result, needs |-> needs]

NoPrompt == Prompt("", <<>>, <<>>, <<>>)

\* parsed_intent.get("tool_name", "N/A"), as the f-string renders it
IntentToolName(d) == IF d.has_tool THEN d.tool_name.s ELSE N_A

\* Lines 209-234. variant "raised": evaluating parsed_intent.get raised
\* (parsed_intent unbound or no dict).
BuildPrompt(tu, result, intent, req) ==
  IF Truthy(result) THEN
    IF intent.t # "obj" THEN Prompt("raised", <<>>, <<>>, <<>>)
    ELSE Prompt("tool_result", IntentToolName(intent), result.s, <<>>)
  ELSE IF tu = Str(NONE_MISSING_PARAMS) THEN
    IF intent.t # "obj" THEN Prompt("raised", <<>>, <<>>, <<>>)
    ELSE Prompt("missing_params", IntentToolName(intent), <<>>, Join(<<", ">>, req))
  ELSE Prompt("no_tool", <<>>, <<>>, <<>>)

AnswerReplies ==
  {[kind |-> "raise", text |-> <<>>], [kind |-> "none", text |-> <<>>],
   [kind |-> "text", text |-> <<" ", "answer", "\t">>]}

\* Variant of RespondResult: the call of line 239 outside any try statement.
RespondUncaught(reply) ==
  [escapes |-> reply.kind # "text",
   answer |-> IF reply.kind = "text" THEN Strip(reply.text) ELSE <<>>]

\* Lines 236-248: whether an exception leaves the try statement, and final_answer.
RespondResult(reply) ==
  [escapes |-> FALSE,
   answer |-> IF reply.kind = "text" THEN Strip(reply.text) ELSE FALLBACK_ANSWER]

----------------------------------------------------------------------------
\* handle_agent_request

Queries == {<<>>, <<" ">>, <<"\t", " ">>, <<"q">>, <<" ", "q", " ">>}

\* Variant of IsBlankQuery: the test of line 264 without the strip.
IsEmptyOnly(q) == q = <<>>

\* line 264: not request.query or request.query.strip() == ""
IsBlankQuery(q) == q = <<>> \/ Strip(q) = <<>>

----------------------------------------------------------------------------
\* The state machine

RunAgentLocals ==
  [tool_to_use |-> PyNone, parameters |-> EmptyDict, tool_result |-> PyNone]

Init ==
  /\ pc = [r \in Requests |-> "idle"]
  /\ loop = {}
  /\ query = [r \in Requests |-> <<>>]
  /\ status = [r \in Requests |-> "none"]
  /\ tool_to_use = [r \in Requests |-> RunAgentLocals.tool_to_use]
  /\ parameters = [r \in Requests |-> RunAgentLocals.parameters]
  /\ tool_result = [r \in Requests |-> RunAgentLocals.tool_result]
  /\ parsed_intent = [r \in Requests |-> Unbound]
  /\ final_response_prompt = [r \in Requests |-> NoPrompt]
  /\ final_answer = [r \in Requests |-> <<>>]
  /\ calls = [r \in Requests |-> <<>>]
  /\ tool_args = [r \in Requests |-> <<>>]

\* A client sends POST /agent; the request waits for the event loop.
Arrive(r) ==
  /\ pc[r] = "idle"
  /\ \E q \in Queries : query' = [query EXCEPT ![r] = q]
  /\ pc' = [pc EXCEPT ![r] = "pending"]
  /\ UNCHANGED <<loop, status, tool_to_use, parameters, tool_result, parsed_intent,
                 final_response_prompt, final_answer, calls, tool_args>>

\* The event loop starts the handler task: lines 262-267 and run_agent up to
\* the classification call of line 159, which blocks the event-loop thread.
HandleStart(r) ==
  /\ pc[r] = "pending"
  /\ loop = {}
  /\ IF IsBlankQuery(query[r])
     THEN /\ status' = [status EXCEPT ![r] = "400"]
          /\ pc' = [pc EXCEPT ![r] = "replied"]
          /\ UNCHANGED <<loop, tool_to_use, parameters, tool_result, calls>>
     ELSE /\ loop' = {r}
          /\ pc' = [pc EXCEPT ![r] = "classifying"]
          /\ tool_to_use' = [tool_to_use EXCEPT ![r] = RunAgentLocals.tool_to_use]
          /\ parameters' = [parameters EXCEPT ![r] = RunAgentLocals.parameters]
          /\ tool_result' = [tool_result EXCEPT ![r] = RunAgentLocals.tool_result]
          /\ calls' = [calls EXCEPT ![r] = Append(@, "classify_call")]
          /\ UNCHANGED status
  /\ UNCHANGED <<query, parsed_intent, final_response_prompt, final_answer, tool_args>>

\* The classification call returns or raises: lines 159-180.
ClassifyReturn(r) ==
  /\ pc[r] = "classifying"
  /\ loop = {r}
  /\ \E reply \in IntentReplies :
       LET c == Classified(reply) IN
       /\ parsed_intent' = [parsed_intent EXCEPT ![r] = c.parsed_intent]
       /\ tool_to_use' = [tool_to_use EXCEPT ![r] = c.tool_to_use]
       /\ parameters' = [parameters EXCEPT ![r] = c.parameters]
       /\ calls' = [calls EXCEPT ![r] =
            Append(@, IF reply.kind = "raise" THEN "classify_raise" ELSE "classify_ret")]
  /\ pc' = [pc EXCEPT ![r] = "dispatch"]
  /\ UNCHANGED <<loop, query, status, tool_result, final_response_prompt,
                 final_answer, tool_args>>

\* Lines 209-243 once tool_result is settled: the prompt is built and the
\* response-generation call is issued (or building the prompt raises).
EnterRespond(r, tu, result, req, log) ==
  LET prompt == BuildPrompt(tu, result, parsed_intent[r], req)
  IN  /\ tool_to_use' = [tool_to_use EXCEPT ![r] = tu]
      /\ tool_result' = [tool_result EXCEPT ![r] = result]
      /\ IF prompt.variant = "raised"
         THEN /\ pc' = [pc EXCEPT ![r] = "raised"]
              /\ calls' = [calls EXCEPT ![r] = log]
              /\ UNCHANGED final_response_prompt
         ELSE /\ pc' = [pc EXCEPT ![r] = "responding"]
              /\ calls' = [calls EXCEPT ![r] = Append(log, "respond_call")]
              /\ final_response_prompt' = [final_response_prompt EXCEPT ![r] = prompt]

\* Lines 183-206, up to the tool's network call when it makes one.
Dispatch(r) ==
  /\ pc[r] = "dispatch"
  /\ loop = {r}
  /\ LET st == ToolStage(tool_to_use[r], parameters[r]) IN
       CASE st.state = "raised" ->
              /\ pc' = [pc EXCEPT ![r] = "raised"]
              /\ UNCHANGED <<tool_to_use, tool_result, final_response_prompt,
                             calls, tool_args>>
         [] st.state = "network" ->
              /\ pc' = [pc EXCEPT ![r] = "tool_net"]
              /\ calls' = [calls EXCEPT ![r] = Append(@, "tool_call")]
              /\ tool_args' = [tool_args EXCEPT ![r] = Append(@, parameters[r])]
              /\ UNCHANGED <<tool_to_use, tool_result, final_response_prompt>>
         [] st.state \in {"tool_returned", "tool_raised"} ->
              /\ tool_args' = [tool_args EXCEPT ![r] = Append(@, parameters[r])]
              /\ EnterRespond(r, st.tool_to_use, st.tool_result, st.required_params,
                   calls[r] \o <<"tool_call",
                     IF st.state = "tool_raised" THEN "tool_raise" ELSE "tool_ret">>)
         [] OTHER ->
              /\ EnterRespond(r, st.tool_to_use, st.tool_result, st.required_params,
                              calls[r])
              /\ UNCHANGED tool_args
  /\ UNCHANGED <<loop, query, status, parameters, parsed_intent, final_answer>>

\* requests.get returns or raises and get_weather returns its text: lines 63-106.
ToolReturn(r) ==
  /\ pc[r] = "tool_net"
  /\ loop = {r}
  /\ \E reply \in NetReplies :
       EnterRespond(r, tool_to_use[r], Str(WeatherText(parameters[r].loc, reply)),
                    RequiredParams(tool_to_use[r].s), Append(calls[r], "tool_ret"))
  /\ UNCHANGED <<loop, query, status, parameters, parsed_intent, final_answer, tool_args>>

\* The response-generation call returns or raises: lines 239-258.
RespondReturn(r) ==
  /\ pc[r] = "responding"
  /\ loop = {r}
  /\ \E reply \in AnswerReplies :
       LET res == RespondResult(reply) IN
       /\ calls' = [calls EXCEPT ![r] =
            Append(@, IF reply.kind = "raise" THEN "respond_raise" ELSE "respond_ret")]
       /\ IF res.escapes
          THEN /\ pc' = [pc EXCEPT ![r] = "raised"]
               /\ UNCHANGED final_answer
          ELSE /\ pc' = [pc EXCEPT ![r] = "returned"]
               /\ final_answer' = [final_answer EXCEPT ![r] = res.answer]
  /\ UNCHANGED <<loop, query, status, tool_to_use, parameters, tool_result,
                 parsed_intent, final_response_prompt, tool_args>>

\* The handler task ends: its frame is dropped and the event loop is free.
EndTask(r, code) ==
  /\ loop' = {}
  /\ status' = [status EXCEPT ![r] = code]
  /\ pc' = [pc EXCEPT ![r] = "replied"]
  /\ tool_to_use' = [tool_to_use EXCEPT ![r] = RunAgentLocals.tool_to_use]
  /\ parameters' = [parameters EXCEPT ![r] = RunAgentLocals.parameters]
  /\ tool_result' = [tool_result EXCEPT ![r] = RunAgentLocals.tool_result]
  /\ parsed_intent' = [parsed_intent EXCEPT ![r] = Unbound]
  /\ final_response_prompt' = [final_response_prompt EXCEPT ![r] = NoPrompt]
  /\ final_answer' = [final_answer EXCEPT ![r] = <<>>]
  /\ calls' = [calls EXCEPT ![r] = <<>>]
  /\ tool_args' = [tool_args EXCEPT ![r] = <<>>]
  /\ UNCHANGED query

\* line 268: run_agent returned and the AgentResponse is answered.
HandlerReturn(r) ==
  /\ pc[r] = "returned"
  /\ loop = {r}
  /\ EndTask(r, "200")

\* lines 269-272: an exception left run_agent.
HandlerExcept(r) ==
  /\ pc[r] = "raised"
  /\ loop = {r}
  /\ EndTask(r, "500")

Next ==
  \E r \in Requests :
    \/ Arrive(r)
    \/ HandleStart(r)
    \/ ClassifyReturn(r)
    \/ Dispatch(r)
    \/ ToolReturn(r)
    \/ RespondReturn(r)
    \/ HandlerReturn(r)
    \/ HandlerExcept(r)

Spec == Init /\ [][Next]_vars

----------------------------------------------------------------------------
\* Vocabulary of the properties

\* Positions at which the classification of lines 155-180 has ended.
AfterClassify == {"dispatch", "tool_net", "responding", "returned", "raised"}

\* Positions at which lines 183-206 have been entered and left, or are
\* waiting on the tool's network call.
AfterDispatch == {"tool_net", "responding", "returned", "raised"}

\* Positions at which the response prompt exists.
AtResponse == {"responding", "returned"}

Count(log, tokens) == Cardinality({i \in DOMAIN log : log[i] \in tokens})

IsPrefix(a, b) == Len(a) <= Len(b) /\ SubSeq(b, 1, Len(a)) = a

\* The parsed reply is a JSON object naming a registered tool.
NamesRegisteredTool(d) ==
  d.t = "obj" /\ d.has_tool /\ d.tool_name.t = "str" /\ d.tool_name.s \in {GET_WEATHER}

\* The parameters acted on are a mapping with every required name as a key.
HasRequiredKeys(p) == p.t = "obj" /\ LOCATION \in p.keys

\* The parsed reply is a JSON object naming a tool that is not "none" and not
\* in the registry.
NamesUnknownTool(d) ==
  d.t = "obj" /\ d.has_tool /\ d.tool_name.t = "str"
  /\ d.tool_name.s \notin {NONE, GET_WEATHER}

\* The texts get_weather can return for a location.
ToolTexts(location) ==
  {TEXT_EMPTY_LOCATION} \cup {WeatherText(location, k) : k \in NetReplies}

\* The external calls of one request, in the order the orchestrator may make them.
CallOrders ==
  {<<"classify_call", c>> \o t \o <<"respond_call", a>> :
     c \in {"classify_ret", "classify_raise"},
     t \in {<<>>, <<"tool_call", "tool_ret">>, <<"tool_call", "tool_raise">>},
     a \in {"respond_ret", "respond_raise"}}

----------------------------------------------------------------------------
\* C1: whenever the classified tool is registered and the parsed parameters
\* are a mapping holding every required parameter name (with or without
\* other keys), the tool is invoked exactly once in the request, with exactly
\* the parsed parameters.
C1_InvokedOnceWithParsedParameters ==
  \A r \in Requests :
    ( /\ pc[r] \in AfterDispatch
      /\ NamesRegisteredTool(parsed_intent[r])
      /\ HasRequiredKeys(parameters[r]) )
    => tool_args[r] = <<parameters[r]>>

\* C2: a tool is invoked only if the classified tool name is a key of TOOLS and
\* every required parameter name is a key of the parsed parameters; with an
\* unrecognised name or a missing required parameter no invocation occurs at
\* any point of the request.
C2_InvokedOnlyWhenRegisteredAndComplete ==
  \A r \in Requests :
    /\ (tool_args[r] # <<>> \/ Count(calls[r], {"tool_call"}) > 0)
         => /\ NamesRegisteredTool(parsed_intent[r])
            /\ HasRequiredKeys(parameters[r])
    /\ (pc[r] \in AfterClassify
        /\ (NamesUnknownTool(parsed_intent[r])
            \/ (NamesRegisteredTool(parsed_intent[r]) /\ ~HasRequiredKeys(parameters[r]))))
         => tool_args[r] = <<>> /\ Count(calls[r], {"tool_call"}) = 0

\* C2 witness: a request has returned after invoking the tool.
C2_Witness ==
  \E r \in Requests :
    pc[r] = "returned" /\ Len(tool_args[r]) = 1 /\ Count(calls[r], {"tool_call"}) = 1

\* C3: when the classified tool is registered but a required parameter is
\* missing, no tool_result is produced and the prompt of the response call is
\* the missing-params variant naming the missing parameter(s).
C3_MissingParamsPrompt ==
  \A r \in Requests :
    ( /\ pc[r] \in AtResponse
      /\ NamesRegisteredTool(parsed_intent[r])
      /\ parameters[r].t = "obj"
      /\ LOCATION \notin parameters[r].keys )
    => /\ ~Truthy(tool_result[r])
       /\ final_response_prompt[r].variant = "missing_params"
       /\ final_response_prompt[r].needs = LOCATION

\* C4: if the classification call raises, or its cleaned text is not parseable
\* JSON, no tool is invoked, the response call is still made with the no-tool
\* prompt, run_agent returns a result and the endpoint answers 200.
C4_ClassificationFailureFailsOpen ==
  [][\A r \in Requests :
       /\ (pc'[r] \in AfterClassify /\ parsed_intent'[r].t = "unbound")
            => /\ pc'[r] \in {"dispatch", "responding", "returned"}
               /\ tool_args'[r] = <<>>
               /\ Count(calls'[r], {"tool_call"}) = 0
               /\ pc'[r] \in AtResponse =>
                    /\ final_response_prompt'[r].variant = "no_tool"
                    /\ Count(calls'[r], {"respond_call"}) = 1
       /\ (pc[r] \in AfterClassify /\ parsed_intent[r].t = "unbound"
           /\ pc'[r] = "replied")
            => status'[r] = "200"
    ]_vars

\* C4 witness: run_agent has returned for a request whose classification call
\* raised, after a response call made with the no-tool prompt.
C4_Witness ==
  \E r \in Requests :
    /\ pc[r] = "returned"
    /\ parsed_intent[r].t = "unbound"
    /\ Count(calls[r], {"classify_raise"}) = 1
    /\ final_response_prompt[r].variant = "no_tool"

\* C5: for every non-empty query and every combination of stage outcomes no
\* exception leaves run_agent, so the endpoint never answers 500.
C5_NoExceptionEscapes ==
  \A r \in Requests : pc[r] # "raised" /\ status[r] # "500"

\* C6: while one request waits on an LLM call or on the tool's network call,
\* another request that has arrived can be started: requests are not
\* serialised one behind another.
C6_OthersProgressWhileWaiting ==
  \A r1, r2 \in Requests :
    ( /\ r1 # r2
      /\ pc[r1] \in {"classifying", "tool_net", "responding"}
      /\ pc[r2] = "pending" )
    => ENABLED HandleStart(r2)

\* C7 (as stated): if the classification call raises, or the cleaned text fails
\* to parse as JSON, or the parsed object lacks tool_name or parameters, the
\* intent acted on is "none" with empty parameters: no registry match, no tool
\* invocation, no tool_result, and the no-tool prompt.
C7_Original ==
  \A r \in Requests :
    ( /\ pc[r] \in AfterDispatch
      /\ \/ parsed_intent[r].t = "unbound"
         \/ /\ parsed_intent[r].t = "obj"
            /\ (~parsed_intent[r].has_tool \/ ~parsed_intent[r].has_params) )
    => /\ pc[r] # "raised"
       /\ tool_args[r] = <<>>
       /\ ~Truthy(tool_result[r])
       /\ pc[r] \in AtResponse => final_response_prompt[r].variant = "no_tool"

\* C7 (amended): if the classification call raises or the cleaned text fails to
\* parse as JSON, the intent acted on is "none" with empty parameters; if the
\* parsed object lacks tool_name, no tool name is acted on; in these cases there
\* is no registry match, no tool invocation, no tool_result, and the no-tool
\* prompt. An object that lacks only parameters is acted on with its tool_name
\* and empty parameters.
C7_Amended ==
  \A r \in Requests :
    pc[r] \in AfterClassify =>
      /\ parsed_intent[r].t = "unbound" =>
           /\ pc[r] = "dispatch" => tool_to_use[r] = Str(NONE)
           /\ parameters[r] = EmptyDict
      /\ (parsed_intent[r].t = "obj" /\ ~parsed_intent[r].has_tool) =>
           tool_to_use[r] = PyNone
      /\ (parsed_intent[r].t = "obj" /\ ~parsed_intent[r].has_params) =>
           parameters[r] = EmptyDict
      /\ ( \/ parsed_intent[r].t = "unbound"
           \/ (parsed_intent[r].t = "obj" /\ ~parsed_intent[r].has_tool) ) =>
           /\ pc[r] # "raised"
           /\ tool_to_use[r] \in {Str(NONE), PyNone}
           /\ tool_args[r] = <<>>
           /\ ~Truthy(tool_result[r])
           /\ pc[r] \in AtResponse => final_response_prompt[r].variant = "no_tool"

\* C7 witness: run_agent has returned with the no-tool prompt for a parsed
\* object that has parameters (with keys) and no tool_name.
C7_Witness ==
  \E r \in Requests :
    /\ pc[r] = "returned"
    /\ parsed_intent[r].t = "obj"
    /\ ~parsed_intent[r].has_tool
    /\ parameters[r].keys # {}
    /\ final_response_prompt[r].variant = "no_tool"

\* C8: for every query that is empty or whitespace only, the handler answers
\* 400 and run_agent is never entered: no LLM call and no tool invocation.
C8_BlankQueryRejected ==
  \A r \in Requests :
    ( /\ pc[r] \notin {"idle", "pending"}
      /\ \A i \in DOMAIN query[r] : query[r][i] \in WS )
    => /\ pc[r] = "replied"
       /\ status[r] = "400"
       /\ calls[r] = <<>>
       /\ tool_args[r] = <<>>

\* C8 witness: a whitespace-only, non-empty query has been answered 400.
C8_Witness ==
  \E r \in Requests :
    /\ pc[r] = "replied"
    /\ status[r] = "400"
    /\ query[r] # <<>>

\* C9: within an accepted request the external calls happen one after another
\* in the order classification, at most one tool invocation, response
\* generation; every accepted request makes exactly one classification call and
\* exactly one response-generation call.
C9_SequentialCalls ==
  \A r \in Requests :
    /\ \E o \in CallOrders : IsPrefix(calls[r], o)
    /\ pc[r] \in {"returned", "raised"} =>
         /\ Count(calls[r], {"classify_call"}) = 1
         /\ Count(calls[r], {"respond_call"}) = 1
         /\ Count(calls[r], {"tool_call"}) <= 1

\* C10 (as stated): whenever the classified tool is registered with all
\* required parameters present, or is a name other than "none" absent from the
\* registry, response generation is reached with a non-empty tool_result in the
\* tool-result prompt: the tool's text if it returned, the "Failed to execute"
\* text if it raised, the not-available text for an unknown tool.
ResultReachesPrompt(r) ==
  /\ pc[r] # "raised"
  /\ pc[r] \in AtResponse =>
       /\ tool_result[r].t = "str"
       /\ tool_result[r].s # <<>>
       /\ final_response_prompt[r].variant = "tool_result"
       /\ final_response_prompt[r].result = tool_result[r].s
       /\ NamesUnknownTool(parsed_intent[r]) =>
            tool_result[r].s =
              <<"Error: I cannot perform that action as the tool '">>
              \o parsed_intent[r].tool_name.s \o <<"' is not available.">>
       /\ NamesRegisteredTool(parsed_intent[r]) =>
            IF Count(calls[r], {"tool_ret"}) = 1
            THEN tool_result[r].s \in ToolTexts(parameters[r].loc)
            ELSE tool_result[r].s =
                   <<"Error: Failed to execute the tool '", "get_weather", "'.">>

C10_Original ==
  \A r \in Requests :
    ( /\ pc[r] \in AfterDispatch
      /\ \/ NamesRegisteredTool(parsed_intent[r]) /\ HasRequiredKeys(parameters[r])
         \/ NamesUnknownTool(parsed_intent[r]) )
    => ResultReachesPrompt(r)

\* C10 (amended): the same, for a registered tool with all required parameters
\* present or a non-empty name other than "none" absent from the registry.
C10_Amended ==
  \A r \in Requests :
    ( /\ pc[r] \in AfterDispatch
      /\ \/ NamesRegisteredTool(parsed_intent[r]) /\ HasRequiredKeys(parameters[r])
         \/ NamesUnknownTool(parsed_intent[r]) /\ parsed_intent[r].tool_name.s # <<>> )
    => ResultReachesPrompt(r)

\* C10 witness: run_agent has returned after the tool raised, with the
\* "Failed to execute" text in the tool-result prompt.
C10_Witness ==
  \E r \in Requests :
    /\ pc[r] = "returned"
    /\ Count(calls[r], {"tool_raise"}) = 1
    /\ final_response_prompt[r].variant = "tool_result"
    /\ final_response_prompt[r].result =
         <<"Error: Failed to execute the tool '", "get_weather", "'.">>

====
